---------------------------- MODULE Spec2Model ----------------------------
(***************************************************************************)
(* A model of blank.py, the IPTV link fixer: the liveness prober           *)
(* (check_m3u8_link), the mismatch detector (is_channel_mismatch), the     *)
(* quality scorer (get_stream_quality_score), the replacement selector     *)
(* (find_replacement_stream), the upgrade evaluator                        *)
(* (should_upgrade_stream) and the reconcile pass (update_advancefeed).    *)
(*                                                                         *)
(* Python strings are TLA+ strings; str.upper, str.lower, str.strip,       *)
(* str.replace, the operator `in' and re.findall are computed character by *)
(* character.  Python's None is the string None.                           *)
(***************************************************************************)
EXTENDS Integers, Sequences, FiniteSets, TLC

(***************************************************************************)
(* Bounds of the model.                                                    *)
(***************************************************************************)
\* the longest candidate feed fetched in a run
MaxFeed == 3
\* the longest local catalog (shortFormVideos)
MaxEntries == 2

(***************************************************************************)
(* Python string operations.                                               *)
(***************************************************************************)
None == "<None>"

LowerLetters == "abcdefghijklmnopqrstuvwxyz"
UpperLetters == "ABCDEFGHIJKLMNOPQRSTUVWXYZ"
Digits == "0123456789"

\* the 1-based position of the one-character string c in alphabet, 0 if absent
IndexIn(c, alphabet) ==
    IF \E i \in 1..Len(alphabet) : SubSeq(alphabet, i, i) = c
    THEN CHOOSE i \in 1..Len(alphabet) : SubSeq(alphabet, i, i) = c
    ELSE 0

CharAt(s, i) == SubSeq(s, i, i)

UpperChar(c) ==
    LET k == IndexIn(c, LowerLetters)
    IN  IF k = 0 THEN c ELSE CharAt(UpperLetters, k)

LowerChar(c) ==
    LET k == IndexIn(c, UpperLetters)
    IN  IF k = 0 THEN c ELSE CharAt(LowerLetters, k)

RECURSIVE UpperOf(_)
\* str.upper(), character by character
UpperOf(s) ==
    IF s = "" THEN ""
    ELSE UpperChar(CharAt(s, 1)) \o UpperOf(SubSeq(s, 2, Len(s)))

RECURSIVE LowerOf(_)
\* str.lower(), character by character
LowerOf(s) ==
    IF s = "" THEN ""
    ELSE LowerChar(CharAt(s, 1)) \o LowerOf(SubSeq(s, 2, Len(s)))

\* sub in s
Contains(s, sub) ==
    \E i \in 1..(Len(s) - Len(sub) + 1) : SubSeq(s, i, i + Len(sub) - 1) = sub

\* s.startswith(prefix)
StartsWith(s, prefix) ==
    /\ Len(prefix) <= Len(s)
    /\ SubSeq(s, 1, Len(prefix)) = prefix

IsSpace(c) == c \in {" ", "\t", "\r", "\n"}

RECURSIVE LStrip(_)
LStrip(s) ==
    IF s # "" /\ IsSpace(CharAt(s, 1)) THEN LStrip(SubSeq(s, 2, Len(s))) ELSE s

RECURSIVE RStrip(_)
RStrip(s) ==
    IF s # "" /\ IsSpace(CharAt(s, Len(s))) THEN RStrip(SubSeq(s, 1, Len(s) - 1)) ELSE s

\* str.strip()
Strip(s) == RStrip(LStrip(s))

RECURSIVE Remove(_, _)
\* s.replace(old, ''), old not empty: every occurrence, left to right
Remove(s, old) ==
    IF Len(s) < Len(old) THEN s
    ELSE IF SubSeq(s, 1, Len(old)) = old
         THEN Remove(SubSeq(s, Len(old) + 1, Len(s)), old)
         ELSE CharAt(s, 1) \o Remove(SubSeq(s, 2, Len(s)), old)

IsDigit(c) == c \in {"0", "1", "2", "3", "4", "5", "6", "7", "8", "9"}

AllDigits(s, i, n) ==
    /\ i + n - 1 <= Len(s)
    /\ \A k \in i..(i + n - 1) : IsDigit(CharAt(s, k))

RECURSIVE ToInt(_)
\* int(s) of a string of decimal digits
ToInt(s) ==
    IF s = "" THEN 0
    ELSE 10 * ToInt(SubSeq(s, 1, Len(s) - 1)) + (IndexIn(CharAt(s, Len(s)), Digits) - 1)

Max(a, b) == IF a >= b THEN a ELSE b

(***************************************************************************)
(* The inputs of the model: the records a candidate feed and a local       *)
(* catalog are drawn from.                                                 *)
(***************************************************************************)
\* A feed record (a dict of iptv_streams): absent keys hold their .get default;
\* resolution is <<>> when absent or empty, else <<width, height>>;
\* mismatch_reason is the key '_mismatch_reason', None when absent.
Stream(name, title, url, country, resolution) ==
    [name |-> name, title |-> title, url |-> url, country |-> country,
     resolution |-> resolution, mismatch_reason |-> None]

\* An entry of shortFormVideos: videos is content.videos (the URLs of its video
\* objects, "" for a video object without URL)
Entry(id, title, country, videos) ==
    [id |-> id, title |-> title, country |-> country, videos |-> videos]

StreamList ==
    << Stream("CNN", "", "http://good.example/cnn.m3u8", "", <<>>),
       Stream("HLN", "CNN Headline News", "http://b.example/hd/hln.m3u8", "US", <<>>),
       Stream("CNN US", "", "http://c.example/cnn_1280x720.m3u8", "US", <<1280, 720>>),
       Stream("Cable News", "CNN", "http://d.example/cnn.M3U8", "UK", <<>>),
       Stream("CNN", "", "http://e.example/cnn.mp4", "US", <<>>) >>

EntryList ==
    << Entry("cnn", "CNN", "", <<"http://dead.example/cnn.m3u8">>),
       Entry("hln", "HLN (Latency)", "US", <<"http://b.example/hd/hln.m3u8">>),
       Entry("amc", "AMC", "", <<>>),
       Entry("tbs", "TBS", "", <<"">>) >>

Range(f) == {f[k] : k \in DOMAIN f}

PoolTitles == {e.title : e \in Range(EntryList)}
PoolUrls ==
    {s.url : s \in Range(StreamList)} \cup UNION {Range(e.videos) : e \in Range(EntryList)}
PoolStrings ==
    PoolTitles \cup PoolUrls \cup {""}
    \cup {s.name : s \in Range(StreamList)} \cup {s.title : s \in Range(StreamList)}
    \cup {s.country : s \in Range(StreamList)} \cup {e.country : e \in Range(EntryList)}

(***************************************************************************)
(* TLC evaluates a constant definition once.  The tables below hold the    *)
(* values of the string functions on the strings of the pools; a string    *)
(* outside the pools is computed.                                          *)
(***************************************************************************)
UpperTable == [s \in PoolStrings |-> UpperOf(s)]
LowerTable == [s \in PoolStrings |-> LowerOf(s)]

\* str.upper()
Upper(s) == IF s \in PoolStrings THEN UpperTable[s] ELSE UpperOf(s)
\* str.lower()
Lower(s) == IF s \in PoolStrings THEN LowerTable[s] ELSE LowerOf(s)

(***************************************************************************)
(* is_channel_mismatch                                                     *)
(***************************************************************************)
\* the three replace calls and the strip that clean a channel title
CleanTitle(title_upper) ==
    Strip(Remove(Remove(Remove(title_upper, "(TEMPORARY)"), "GEO-BLOCKED"), "(LATENCY)"))

local_indicators ==
    << "LOCAL", "AFFILIATE", "KDFW", "KTVU", "WTTG", "WNYW", "KTTV",
       "FOX 2", "FOX 4", "FOX 5", "FOX 7", "FOX 9", "FOX 10", "FOX 11", "FOX 13",
       "FOX 25", "FOX 26", "FOX 29", "FOX 32", "FOX 35", "FOX 46",
       "WTXF", "WFXT", "WJBK", "WTVT", "WAGA", "KRIV",
       "WASHINGTON", "NEW YORK", "LOS ANGELES", "CHICAGO", "DALLAS", "ATLANTA",
       "DETROIT", "MIAMI", "BOSTON", "PHOENIX", "SEATTLE", "HOUSTON" >>

Rule(key, avoid, penalty_score, reason) ==
    [key |-> key, avoid |-> avoid, penalty_score |-> penalty_score, reason |-> reason]

\* the dict mismatch_rules, in insertion order
mismatch_rules ==
    << Rule("FOX NEWS",
            <<"FOX BUSINESS", "FOX SPORTS", "FOX DEPORTES", "FOX SOCCER", "FS1", "FS2",
              "FOX MOVIES", "FOX LIFE">>,
            -50, "Wrong Fox network"),
       Rule("ESPN",
            <<"DEPORTES", "DEPORTIVAS", "SPANISH", "LATINO", "PLUS", "ESPN+", "ESPN2",
              "ESPN 2", "ESPNU", "ESPN U", "COLLEGE">>,
            -50, "Secondary/International ESPN variant"),
       Rule("ESPN2",
            <<"DEPORTES", "SPANISH", "LATINO", "PLUS">>,
            -50, "Wrong ESPN variant"),
       Rule("AMC",
            <<"AMC+", "PLUS", "AMCPLUS", "SUNDANCE", "IFC", "SHUDDER", "ACORN">>,
            -40, "AMC secondary service, not main channel"),
       Rule("HBO",
            <<"HBO2", "HBO 2", "HBO3", "HBO 3", "HBO MAX", "HBOMAX", "MAX", "FAMILY",
              "COMEDY", "ZONE", "SIGNATURE", "LATINO">>,
            -40, "HBO secondary channel, not main HBO"),
       Rule("CNN",
            <<"CNN INTERNATIONAL", "CNN ESPAÑOL", "CNN TURK", "CNN BRASIL", "HLN">>,
            -30, "International CNN variant"),
       Rule("MSNBC",
            <<"CNBC", "NBC SPORTS", "NBC 2", "NBC 4", "NBC 5", "NBC 7", "WNBC", "KNBC">>,
            -40, "Wrong NBC network"),
       Rule("CBS NEWS",
            <<"CBS SPORTS", "CBS 2", "CBS 3", "CBS 4", "CBS 5", "WCBS", "KCBS", "LOCAL">>,
            -40, "Local CBS station, not CBS News"),
       Rule("ABC NEWS",
            <<"ABC 7", "ABC 13", "WABC", "KABC", "WLS", "LOCAL">>,
            -40, "Local ABC station, not ABC News"),
       Rule("DISCOVERY",
            <<"DISCOVERY+", "PLUS", "ID", "INVESTIGATION", "SCIENCE", "FAMILIA", "TURBO",
              "THEATER">>,
            -30, "Discovery secondary channel"),
       Rule("NATIONAL GEOGRAPHIC",
            <<"NAT GEO WILD", "WILD", "MUNDO", "LATIN">>,
            -30, "Nat Geo secondary channel"),
       Rule("CARTOON NETWORK",
            <<"BOOMERANG", "TOONAMI", "CARTOON NETWORK ARABIC">>,
            -30, "Wrong Cartoon Network variant"),
       Rule("DISNEY CHANNEL",
            <<"DISNEY+", "DISNEY PLUS", "DISNEY XD", "DISNEY JR", "DISNEY JUNIOR">>,
            -35, "Disney secondary channel"),
       Rule("TBS", <<"TNT", "TRUTV", "TCM">>, -40, "Wrong Turner network"),
       Rule("TNT", <<"TBS", "TRUTV", "TCM">>, -40, "Wrong Turner network") >>

secondary_indicators ==
    << "PLUS", "+", "2", "3", "HD", "EXTRA", "XTRA", "FAMILIA", "LATINO", "LATIN",
       "SPANISH", "ESPAÑOL", "ALTERNATIVE", "ALT" >>

\* the indicators for which the secondary-variant guard returns
clear_secondary == {"2", "3", "PLUS", "+", "EXTRA", "XTRA"}

Mismatch(is_mismatch, reason, penalty) ==
    [is_mismatch |-> is_mismatch, reason |-> reason, penalty |-> penalty]

\* lines 97-107: the Fox News guard; is_mismatch = FALSE when it does not return
FoxNewsGuard(channel_clean, stream_name_upper, stream_title_upper, url_lower) ==
    IF ~(Contains(channel_clean, "FOX NEWS") \/ Contains(channel_clean, "FOXNEWS"))
    THEN Mismatch(FALSE, None, 0)
    ELSE IF \E i \in 1..Len(local_indicators) :
                \/ Contains(stream_name_upper, local_indicators[i])
                \/ Contains(stream_title_upper, local_indicators[i])
    THEN Mismatch(TRUE, "Local Fox affiliate, not Fox News Channel", -60)
    ELSE IF /\ ~Contains(stream_name_upper, "NEWS")
            /\ ~Contains(stream_title_upper, "NEWS")
            /\ ~Contains(stream_name_upper, "FNC")
            /\ ~Contains(url_lower, "foxnews")
            /\ ~Contains(url_lower, "fox_news")
            /\ ~Contains(url_lower, "fox-news")
    THEN Mismatch(TRUE, "Fox channel but not Fox News", -55)
    ELSE Mismatch(FALSE, None, 0)

\* line 195: one avoid term against the stream's name, title and URL
AvoidHit(avoid_term, stream_name_upper, stream_title_upper, url_lower) ==
    \/ Contains(stream_name_upper, avoid_term)
    \/ Contains(stream_title_upper, avoid_term)
    \/ Contains(url_lower, avoid_term)

\* lines 190-196: the rule of mismatch_rules at position k returns
RuleHit(k, channel_clean, stream_name_upper, stream_title_upper, url_lower) ==
    /\ Contains(channel_clean, mismatch_rules[k].key)
    /\ \E a \in 1..Len(mismatch_rules[k].avoid) :
            AvoidHit(mismatch_rules[k].avoid[a],
                     stream_name_upper, stream_title_upper, url_lower)

\* lines 189-196: the loop over mismatch_rules; the first rule that hits returns
AvoidListLayer(channel_clean, stream_name_upper, stream_title_upper, url_lower) ==
    LET hits == {k \in 1..Len(mismatch_rules) :
                    RuleHit(k, channel_clean, stream_name_upper,
                            stream_title_upper, url_lower)}
    IN  IF hits = {} THEN Mismatch(FALSE, None, 0)
        ELSE LET k == CHOOSE h \in hits : \A o \in hits : h <= o
             IN  Mismatch(TRUE, mismatch_rules[k].reason, mismatch_rules[k].penalty_score)

\* lines 205-210: the first indicator, in list order, for which the guard returns
SecondaryLayer(channel_clean, stream_name_upper) ==
    LET hits == {i \in 1..Len(secondary_indicators) :
                    /\ Contains(stream_name_upper, channel_clean)
                    /\ Contains(stream_name_upper, secondary_indicators[i])
                    /\ secondary_indicators[i] \in clear_secondary}
    IN  IF hits = {} THEN Mismatch(FALSE, None, 0)
        ELSE LET i == CHOOSE h \in hits : \A o \in hits : h <= o
             IN  Mismatch(TRUE,
                          "Secondary channel variant (" \o secondary_indicators[i] \o ")",
                          -25)

\* the body of is_channel_mismatch
MismatchOf(channel_title, stream_name, stream_title, url) ==
    LET channel_upper == Upper(channel_title)
        stream_name_upper == Upper(stream_name)
        stream_title_upper == Upper(stream_title)
        url_lower == Lower(url)
        channel_clean == CleanTitle(channel_upper)
        fox == FoxNewsGuard(channel_clean, stream_name_upper, stream_title_upper, url_lower)
        avoid == AvoidListLayer(channel_clean, stream_name_upper, stream_title_upper,
                                url_lower)
    IN  IF fox.is_mismatch THEN fox
        ELSE IF avoid.is_mismatch THEN avoid
        ELSE SecondaryLayer(channel_clean, stream_name_upper)

\* the (name, title, url) triples scored in a run over the pools: those of the feed
\* records, and ('', '', url) for a current stream
PoolTriples ==
    {<<s.name, s.title, s.url>> : s \in Range(StreamList)}
    \cup {<<"", "", u>> : u \in PoolUrls}

MismatchTable ==
    [t \in PoolTitles |-> [k \in PoolTriples |-> MismatchOf(t, k[1], k[2], k[3])]]

is_channel_mismatch(channel_title, stream_name, stream_title, url) ==
    IF channel_title \in PoolTitles /\ <<stream_name, stream_title, url>> \in PoolTriples
    THEN MismatchTable[channel_title][<<stream_name, stream_title, url>>]
    ELSE MismatchOf(channel_title, stream_name, stream_title, url)

(***************************************************************************)
(* get_stream_quality_score                                                *)
(***************************************************************************)
\* lines 236-244
CountryBonus(country) ==
    IF country \in {"US", "USA", "UNITED STATES"} THEN 40
    ELSE IF country \in {"UK", "CA", "CANADA"} THEN 20
    ELSE IF country \in {"INT", "INTERNATIONAL"} THEN 10
    ELSE IF country # "" THEN 5
    ELSE 0

ContainsAny(s, subs) == \E t \in subs : Contains(s, t)

\* lines 248-259: the keyword ladder
KeywordBonusWithout1080Rung(url_lower) ==
    IF ContainsAny(url_lower, {"2160", "4k", "uhd"}) THEN 40
    ELSE IF ContainsAny(url_lower, {"1440", "2k"}) THEN 35
    ELSE IF ContainsAny(url_lower, {"900", "720", "hd", "1280"}) THEN 20
    ELSE IF ContainsAny(url_lower, {"600", "480", "sd", "640", "854"}) THEN 10
    ELSE IF ContainsAny(url_lower, {"360", "240", "426", "320"}) THEN -10
    ELSE 0

KeywordBonus(url_lower) ==
    IF ContainsAny(url_lower, {"2160", "4k", "uhd"}) THEN 40
    ELSE IF ContainsAny(url_lower, {"1440", "2k"}) THEN 35
    ELSE IF ContainsAny(url_lower, {"1080", "fhd", "1920"}) THEN 30
    ELSE IF ContainsAny(url_lower, {"900", "720", "hd", "1280"}) THEN 20
    ELSE IF ContainsAny(url_lower, {"600", "480", "sd", "640", "854"}) THEN 10
    ELSE IF ContainsAny(url_lower, {"360", "240", "426", "320"}) THEN -10
    ELSE 0

\* lines 271-286 and 296-311: the dimension ladder
DimensionBonus(max_dimension) ==
    IF max_dimension >= 2160 THEN 40
    ELSE IF max_dimension >= 1440 THEN 35
    ELSE IF max_dimension >= 1080 THEN 30
    ELSE IF max_dimension >= 900 THEN 25
    ELSE IF max_dimension >= 720 THEN 20
    ELSE IF max_dimension >= 600 THEN 15
    ELSE IF max_dimension >= 480 THEN 10
    ELSE IF max_dimension >= 360 THEN 5
    ELSE 0

\* the second group (\d{3,4}) matched greedily at position j: its length, 0 if none
SecondGroupLen(s, j) ==
    IF AllDigits(s, j, 4) THEN 4 ELSE IF AllDigits(s, j, 3) THEN 3 ELSE 0

\* (\d{3,4})[x_\-](\d{3,4}) matched at position i with a first group of n digits
MatchesAt(s, i, n) ==
    /\ AllDigits(s, i, n)
    /\ i + n <= Len(s)
    /\ CharAt(s, i + n) \in {"x", "_", "-"}
    /\ SecondGroupLen(s, i + n + 1) # 0

\* the greedy first group at position i: 4 digits before 3; 0 if no match starts at i
FirstGroupLen(s, i) ==
    IF MatchesAt(s, i, 4) THEN 4 ELSE IF MatchesAt(s, i, 3) THEN 3 ELSE 0

\* line 263: re.findall(resolution_pattern, url_lower)[0] as <<width, height>>,
\* <<>> when the pattern matches nowhere
FirstResolutionMatch(s) ==
    LET starts == {i \in 1..Len(s) : FirstGroupLen(s, i) # 0}
    IN  IF starts = {} THEN <<>>
        ELSE LET i == CHOOSE h \in starts : \A o \in starts : h <= o
                 n == FirstGroupLen(s, i)
                 m == SecondGroupLen(s, i + n + 1)
             IN  << ToInt(SubSeq(s, i, i + n - 1)),
                    ToInt(SubSeq(s, i + n + 1, i + n + m)) >>

\* lines 262-287
PatternBonus(url_lower) ==
    LET match == FirstResolutionMatch(url_lower)
    IN  IF match = <<>> THEN 0 ELSE DimensionBonus(Max(match[1], match[2]))

\* lines 290-311
MetadataBonus(resolution) ==
    IF resolution = <<>> THEN 0 ELSE DimensionBonus(Max(resolution[1], resolution[2]))

reliable_domains ==
    {"i.mjh.nz", "iptv-org.github.io", "livetv.sx", "ustv247.tv", "moveonjoy.com"}

\* lines 322-325
DomainBonus(url_lower) == IF ContainsAny(url_lower, reliable_domains) THEN 15 ELSE 0

\* lines 328-329
LowQualityPenalty(url_lower) ==
    IF ContainsAny(url_lower, {"backup", "alt"}) THEN -5 ELSE 0

\* what the URL alone adds to the score (lines 247-287 and 313-329)
UrlBonusOf(url_lower) ==
    KeywordBonus(url_lower) + PatternBonus(url_lower)
    + DomainBonus(url_lower) + LowQualityPenalty(url_lower)

UrlBonusTable == [u \in PoolUrls |-> UrlBonusOf(Lower(u))]

UrlBonus(url) == IF url \in PoolUrls THEN UrlBonusTable[url] ELSE UrlBonusOf(Lower(url))

\* the base score of line 220
BaseScore == 50

\* the value get_stream_quality_score returns; the additions commute, so the
\* bonus of the metadata resolution is added before those of the domain
get_stream_quality_score(url, stream_data, channel_title) ==
    LET m == is_channel_mismatch(channel_title, stream_data.name, stream_data.title, url)
    IN  BaseScore
        + (IF m.is_mismatch THEN m.penalty ELSE 0)
        + CountryBonus(Upper(stream_data.country))
        + MetadataBonus(stream_data.resolution)
        + UrlBonus(url)

\* lines 230-233: stream_data after the call; the dict is the caller's, changed in place
ScoredStream(url, stream_data, channel_title) ==
    LET m == is_channel_mismatch(channel_title, stream_data.name, stream_data.title, url)
    IN  IF m.is_mismatch
        THEN [stream_data EXCEPT !.mismatch_reason = m.reason]
        ELSE stream_data

(***************************************************************************)
(* Search terms (lines 351-400 and 506-551)                                *)
(***************************************************************************)
Mapping(key, values) == [key |-> key, values |-> values]

\* the dict channel_mappings, in insertion order
channel_mappings ==
    << Mapping("FOX NEWS", <<"FOX NEWS", "FOXNEWS", "FOX", "FNC">>),
       Mapping("CBSN", <<"CBS NEWS", "CBSN", "CBS">>),
       Mapping("ABC NEWS", <<"ABC NEWS", "ABCNEWS", "ABC">>),
       Mapping("CNN", <<"CNN">>),
       Mapping("OANN", <<"OAN", "ONE AMERICA NEWS", "OANN">>),
       Mapping("NEWSMAX TV", <<"NEWSMAX", "NEWSMAX TV">>),
       Mapping("MSNBC", <<"MSNBC">>),
       Mapping("BBC NEWS", <<"BBC", "BBC NEWS", "BBC AMERICA", "BBCAMERICA">>),
       Mapping("TBN", <<"TBN", "TRINITY">>),
       Mapping("TCM", <<"TCM", "TURNER CLASSIC MOVIES">>),
       Mapping("AMC", <<"AMC">>),
       Mapping("TNT", <<"TNT">>),
       Mapping("TBS", <<"TBS">>),
       Mapping("TRUTV", <<"TRUTV", "TRU TV">>),
       Mapping("HLN", <<"HLN", "HEADLINE NEWS">>),
       Mapping("CARTOON NETWORK", <<"CARTOON NETWORK", "CN">>),
       Mapping("NICKTOONS", <<"NICKTOONS", "NICKELODEON">>),
       Mapping("DISNEY CHANNEL", <<"DISNEY CHANNEL", "DISNEY">>),
       Mapping("ESPN", <<"ESPN">>),
       Mapping("ESPN2", <<"ESPN2", "ESPN 2">>),
       Mapping("FS1", <<"FOX SPORTS 1", "FOX SPORTS1", "FS1", "FS 1">>),
       Mapping("FOX SPORTS", <<"FOX SPORTS">>),
       Mapping("HBO", <<"HBO">>),
       Mapping("CINEMAX", <<"CINEMAX">>),
       Mapping("STADIUM", <<"STADIUM">>),
       Mapping("DISCOVERY", <<"DISCOVERY", "DISCOVERY CHANNEL">>),
       Mapping("TLC", <<"TLC">>),
       Mapping("NATIONAL GEOGRAPHIC", <<"NAT GEO", "NATIONAL GEOGRAPHIC", "NATGEO">>),
       Mapping("MTV", <<"MTV">>),
       Mapping("CHARGE", <<"CHARGE!", "CHARGE">>),
       Mapping("POP", <<"POP", "POP TV">>),
       Mapping("BOOMERANG", <<"BOOMERANG">>) >>

MappingAppliesReversed(k, channel_name_clean) ==
    \E t \in 1..Len(channel_mappings[k].values) :
        Contains(channel_mappings[k].values[t], channel_name_clean)

\* line 395: any(term in channel_name_clean for term in values)
MappingApplies(k, channel_name_clean) ==
    \E t \in 1..Len(channel_mappings[k].values) :
        Contains(channel_name_clean, channel_mappings[k].values[t])

\* lines 351-400: the list search_terms of a channel title
SearchTermsOf(channel_name) ==
    LET channel_name_clean == CleanTitle(Upper(channel_name))
        hits == {k \in 1..Len(channel_mappings) : MappingApplies(k, channel_name_clean)}
    IN  IF hits = {} THEN <<channel_name_clean>>
        ELSE channel_mappings[CHOOSE h \in hits : \A o \in hits : h <= o].values

SearchTermsTable == [t \in PoolTitles |-> SearchTermsOf(t)]

SearchTerms(channel_name) ==
    IF channel_name \in PoolTitles THEN SearchTermsTable[channel_name]
    ELSE SearchTermsOf(channel_name)

(***************************************************************************)
(* find_replacement_stream: the ranked candidates (lines 405-478)          *)
(***************************************************************************)
\* line 414 and line 571: the stream has a URL and it contains '.m3u8'
HasPlaylistUrl(url) == url # "" /\ Contains(Lower(url), ".m3u8")

\* lines 430-449: the first search term equal to the stream's name or title
ExactTermIndex(search_terms, stream_name, stream_title) ==
    LET hits == {t \in 1..Len(search_terms) :
                    \/ (stream_name # "" /\ search_terms[t] = stream_name)
                    \/ (stream_title # "" /\ search_terms[t] = stream_title)}
    IN  IF hits = {} THEN 0 ELSE CHOOSE h \in hits : \A o \in hits : h <= o

\* lines 429-470: the match type of a stream, "" when no search term matches it
MatchType(search_terms, stream_name, stream_title) ==
    LET t == ExactTermIndex(search_terms, stream_name, stream_title)
    IN  IF t # 0
        THEN IF stream_name # "" /\ search_terms[t] = stream_name
             THEN "EXACT_NAME" ELSE "EXACT_TITLE"
        ELSE IF stream_name # "" /\ \E k \in 1..Len(search_terms) :
                                        Contains(stream_name, search_terms[k])
        THEN "PARTIAL_NAME"
        ELSE IF stream_title # "" /\ \E k \in 1..Len(search_terms) :
                                         Contains(stream_title, search_terms[k])
        THEN "PARTIAL_TITLE"
        ELSE ""

\* lines 417-427: the candidate built from the stream at position i of the feed
Candidate(i, stream, channel_name, search_terms) ==
    [index |-> i,
     name |-> IF stream.name # "" THEN stream.name
              ELSE IF stream.title # "" THEN stream.title ELSE "Unknown",
     url |-> stream.url,
     country |-> stream.country,
     title |-> stream.title,
     quality_score |-> get_stream_quality_score(stream.url, stream, channel_name),
     match_type |-> MatchType(search_terms, Upper(stream.name), Upper(stream.title)),
     mismatch_reason |-> ScoredStream(stream.url, stream, channel_name).mismatch_reason]

\* the candidates an ascending sort puts before the one at position i
SortsBeforeAscending(list, i) ==
    {j \in 1..Len(list) :
        \/ list[j].quality_score < list[i].quality_score
        \/ (list[j].quality_score = list[i].quality_score /\ j < i)}

\* the candidates that list.sort(key=quality_score, reverse=True) puts before the
\* one at position i: those of higher score and, the sort being stable, those of
\* equal score that come earlier
SortsBefore(list, i) ==
    {j \in 1..Len(list) :
        \/ list[j].quality_score > list[i].quality_score
        \/ (list[j].quality_score = list[i].quality_score /\ j < i)}

\* list.sort(key=lambda x: x['quality_score'], reverse=True).  The list is bound
\* to l, so that it is computed once, as the variable of the code is
SortDesc(list) ==
    CHOOSE sorted \in
        {[k \in 1..Len(l) |->
            l[CHOOSE i \in 1..Len(l) : Cardinality(SortsBefore(l, i)) = k - 1]] :
         l \in {list}} : TRUE

\* lines 409-427: the candidate of every stream of the feed, in feed order
AllCandidates(channel_name, iptv_streams) ==
    [i \in 1..Len(iptv_streams) |->
        Candidate(i, iptv_streams[i], channel_name, SearchTerms(channel_name))]

\* the candidates of all, in order, that have a playlist URL and a match type in types
MatchesOfType(all, types) ==
    SelectSeq(all, LAMBDA c : HasPlaylistUrl(c.url) /\ c.match_type \in types)

\* lines 405-478: the list candidates
RankedCandidates(channel_name, iptv_streams) ==
    CHOOSE candidates_list \in
        {SortDesc(MatchesOfType(all, {"EXACT_NAME"}))
         \o SortDesc(MatchesOfType(all, {"EXACT_TITLE"}))
         \o SortDesc(MatchesOfType(all, {"PARTIAL_NAME", "PARTIAL_TITLE"})) :
         all \in {AllCandidates(channel_name, iptv_streams)}} : TRUE

\* iptv_streams after the loop of lines 409-470: every stream with a playlist URL
\* was scored, and scoring writes '_mismatch_reason' into the stream
StreamsAfterRanking(channel_name, iptv_streams) ==
    [i \in 1..Len(iptv_streams) |->
        IF HasPlaylistUrl(iptv_streams[i].url)
        THEN ScoredStream(iptv_streams[i].url, iptv_streams[i], channel_name)
        ELSE iptv_streams[i]]

(***************************************************************************)
(* should_upgrade_stream (lines 499-595)                                   *)
(***************************************************************************)
\* the minimum improvement of line 554
UpgradeMargin == 20

\* line 503: the score of the current stream, scored as {'country': current_country}
CurrentScore(current_url, current_country, channel_title) ==
    get_stream_quality_score(current_url,
                             Stream("", "", "", current_country, <<>>),
                             channel_title)

\* lines 557-575: the stream is scored by the loop
Eligible(stream, search_terms, current_url) ==
    /\ \E t \in 1..Len(search_terms) :
            Contains(Upper(stream.name) \o " " \o Upper(stream.title), search_terms[t])
    /\ HasPlaylistUrl(stream.url)
    /\ stream.url # current_url

\* the score of the stream at position i of the feed, raised by the margin
AltScoreRaised(i, iptv_streams, channel_title) ==
    get_stream_quality_score(iptv_streams[i].url, iptv_streams[i], channel_title) + 20

\* line 577: the score of the stream at position i of the feed
AltScore(i, iptv_streams, channel_title) ==
    get_stream_quality_score(iptv_streams[i].url, iptv_streams[i], channel_title)

\* lines 553-586: best_alternative after the loop, as a position of the feed, 0
\* for None.  best_score starts at current_score + 20 and a stream replaces
\* best_alternative only with a strictly higher score, so the loop ends on the
\* first stream of the highest score among the eligible ones above that start
BestAlternative(current_score, iptv_streams, channel_title, current_url) ==
    LET eligible == {i \in 1..Len(iptv_streams) :
                        Eligible(iptv_streams[i], SearchTerms(channel_title), current_url)}
        \* the position of the first stream of the highest score above the start
        Best(score) ==
            LET above == {i \in DOMAIN score : score[i] > current_score + UpgradeMargin}
            IN  IF above = {} THEN 0
                ELSE CHOOSE i \in above :
                        \A j \in above :
                            \/ score[j] < score[i]
                            \/ (score[j] = score[i] /\ i <= j)
    IN  CHOOSE best \in
            {Best(score) :
             score \in {[i \in eligible |-> AltScore(i, iptv_streams, channel_title)]}} :
            TRUE

\* the pair (should_upgrade, new_url) that should_upgrade_stream returns
should_upgrade_stream(current_url, current_country, channel_title, iptv_streams) ==
    CHOOSE result \in
        {IF best # 0
         THEN [should_upgrade |-> TRUE, new_url |-> iptv_streams[best].url]
         ELSE [should_upgrade |-> FALSE, new_url |-> None] :
         best \in {BestAlternative(CurrentScore(current_url, current_country,
                                                channel_title),
                                   iptv_streams, channel_title, current_url)}} : TRUE

\* iptv_streams after should_upgrade_stream: line 577 scores the eligible streams
StreamsAfterUpgradeCheck(current_url, channel_title, iptv_streams) ==
    [i \in 1..Len(iptv_streams) |->
        IF Eligible(iptv_streams[i], SearchTerms(channel_title), current_url)
        THEN ScoredStream(iptv_streams[i].url, iptv_streams[i], channel_title)
        ELSE iptv_streams[i]]

(***************************************************************************)
(* check_m3u8_link (lines 7-71)                                            *)
(***************************************************************************)
\* What the network answers to one probe.  get1 and get2 are the outcomes of the
\* two requests.get calls ("ok", or the exception raised); status1 and body are
\* the playlist response; status2 and chunk (None, "" or data) are the response
\* to the first stream URL, read with iter_content.
Response(get1, status1, body, get2, status2, chunk) ==
    [get1 |-> get1, status1 |-> status1, body |-> body,
     get2 |-> get2, status2 |-> status2, chunk |-> chunk]

\* requests.get raises MissingSchema, InvalidSchema or InvalidURL, before any
\* traffic, for a URL that is empty or has no http scheme
SchemeOK(url) == StartsWith(Lower(url), "http://") \/ StartsWith(Lower(url), "https://")

\* line 11: "ok" or the exception requests.get raises
FirstGet(url, resp) == IF SchemeOK(url) THEN resp.get1 ELSE "MissingSchema"

\* the except clauses without the last one
except_clauses_named_only == <<"Timeout", "ConnectionError">>

\* the except clauses of lines 63-71, in order
except_clauses == <<"Timeout", "ConnectionError", "Exception">>

\* isinstance(exception, clause): every exception the probe can meet is an Exception
IsInstance(exception, clause) == clause = "Exception" \/ clause = exception

\* the exception is handled by one of the except clauses (each returns False)
Handled(exception) ==
    \E k \in 1..Len(except_clauses) : IsInstance(exception, except_clauses[k])

RECURSIVE LastSlash(_, _)
\* the position of the last '/' of url at or before i, 0 if none
LastSlash(url, i) ==
    IF i = 0 THEN 0 ELSE IF CharAt(url, i) = "/" THEN i ELSE LastSlash(url, i - 1)

\* line 34: '/'.join(url.split('/')[:-1])
BaseUrl(url) ==
    LET k == LastSlash(url, Len(url))
    IN  IF k = 0 THEN "" ELSE SubSeq(url, 1, k - 1)

\* lines 26-35: the stream URL of one line of the playlist, "" if the line is skipped
StreamUrlOf(url, raw_line) ==
    LET line == Strip(raw_line)
    IN  IF line = "" \/ StartsWith(line, "#") THEN ""
        ELSE IF StartsWith(line, "http") THEN line
        ELSE BaseUrl(url) \o "/" \o line

\* lines 24-35: the list stream_urls
StreamUrls(url, body) ==
    SelectSeq([k \in 1..Len(body) |-> StreamUrlOf(url, body[k])], LAMBDA u : u # "")

\* line 19: '#EXTM3U' in content, content being the lines of body joined by '\n'
HasMarker(body) == \E k \in 1..Len(body) : Contains(body[k], "#EXTM3U")

Outcome(kind, value, test_url) == [kind |-> kind, value |-> value, test_url |-> test_url]

\* lines 11-43: the first request and the parse.  kind is "return" (value is
\* the result), "raise" (the exception leaves the function) or "stream" (go on to the
\* second request, for test_url)
PlaylistStep(url, resp) ==
    LET get == FirstGet(url, resp)
    IN  IF get # "ok"
        THEN IF Handled(get) THEN Outcome("return", FALSE, "")
             ELSE Outcome("raise", FALSE, "")
        ELSE IF resp.status1 # 200 THEN Outcome("return", FALSE, "")
        ELSE IF ~HasMarker(resp.body) THEN Outcome("return", FALSE, "")
        ELSE IF StreamUrls(url, resp.body) = <<>> THEN Outcome("return", FALSE, "")
        ELSE Outcome("stream", FALSE, StreamUrls(url, resp.body)[1])

\* lines 46-61: the second request and the first chunk
StreamStep(resp) ==
    IF resp.get2 # "ok"
    THEN IF Handled(resp.get2) THEN Outcome("return", FALSE, "")
         ELSE Outcome("raise", FALSE, "")
    ELSE IF resp.status2 # 200 THEN Outcome("return", FALSE, "")
    ELSE IF resp.chunk = None \/ Len(resp.chunk) = 0 THEN Outcome("return", FALSE, "")
    ELSE Outcome("return", TRUE, "")

\* the whole call: kind "return" with the result, or kind "raise"
check_m3u8_link(url, resp) ==
    LET first == PlaylistStep(url, resp)
    IN  IF first.kind = "stream" THEN StreamStep(resp) ELSE first

\* a playlist that serves data
LiveResponse ==
    Response("ok", 200, <<"#EXTM3U", "#EXTINF:10,", "seg1.ts">>, "ok", 200, "data")
\* a stale manifest: the playlist answers 200 but its first reference has no bytes
StaleResponse ==
    Response("ok", 200, <<"#EXTM3U", "#EXTINF:10,", "seg1.ts">>, "ok", 200, "")
\* the playlist request times out
TimeoutResponse ==
    Response("Timeout", 0, <<>>, "ok", 200, "data")

\* what the network may answer to a probe made by the reconcile pass
PassResponses == {LiveResponse, StaleResponse, TimeoutResponse}

(***************************************************************************)
(* update_advancefeed: the reconcile pass (lines 597-715)                  *)
(***************************************************************************)
VARIABLES
    pc,             \* where the run is: "start", "entry" (the head of the loop of line
                    \* 624), "upgrade" (line 667), "replace" (the loop of line 483),
                    \* "done", "aborted" (a return of lines 607, 610, 616), "crashed"
    run,            \* "first" or "second": which run of the script this is
    file,           \* advancefeed.json on disk
    feed_source,    \* what the iptv-org API answers to fetch_iptv_org_streams
    feed_data,      \* the catalog in memory
    iptv_streams,   \* the candidate feed in memory
    idx,            \* the position in shortFormVideos of the entry being processed
    candidates,     \* find_replacement_stream: the list candidates
    ci,             \* find_replacement_stream: the position of the candidate to test
    new_url,        \* the URL proposed by should_upgrade_stream
    updated_count, checked_count, failed_count, upgraded_count,
    \* history variables: they record what happened and are read by no action
    loaded,         \* shortFormVideos as loaded by this run
    last_probe,     \* the last call of check_m3u8_link: its URL and its result
    probe_log,      \* the calls of check_m3u8_link made by the current call of
                    \* find_replacement_stream, in order
    outcome,        \* what this run did with each entry processed so far
    wrote,          \* this run wrote advancefeed.json
    net_seen,       \* every pair <<url, result>> a probe has produced, in both runs
    \* the state of one call of check_m3u8_link, stepped on its own
    p_pc,           \* "call" (line 11), "stream" (line 46), "returned", "raised"
    p_url, p_resp, p_requests, p_test_url, p_result,
    \* the state of one call of a function that reads and writes no file and makes
    \* no request, made on its own
    f_pc,           \* "idle", "call", "second" (a second call follows), "returned"
    f_args,         \* the arguments of the call
    f_result        \* what the call returned

vars ==
    << pc, run, file, feed_source, feed_data, iptv_streams, idx, candidates, ci, new_url,
       updated_count, checked_count, failed_count, upgraded_count,
       loaded, last_probe, probe_log, outcome, wrote, net_seen,
       p_pc, p_url, p_resp, p_requests, p_test_url, p_result,
       f_pc, f_args, f_result >>

pass_vars ==
    << pc, run, file, feed_source, feed_data, iptv_streams, idx, candidates, ci, new_url,
       updated_count, checked_count, failed_count, upgraded_count,
       loaded, last_probe, probe_log, outcome, wrote, net_seen >>

probe_vars == << p_pc, p_url, p_resp, p_requests, p_test_url, p_result >>

fn_vars == << f_pc, f_args, f_result >>

\* the k-th smallest element of a set of numbers
Nth(S, k) == CHOOSE i \in S : Cardinality({j \in S : j < i}) = k - 1

\* the sublists of list with at most max elements, in the order of list
SubLists(list, max) ==
    {[k \in 1..Cardinality(S) |-> list[Nth(S, k)]] :
        S \in {T \in SUBSET DOMAIN list : Cardinality(T) <= max}}

\* advancefeed.json: it may be missing or no JSON; a key 'shortFormVideos' that
\* is absent is an empty list here (line 623 skips the loop)
Files ==
    {[status |-> st, shortFormVideos |-> <<>>, lastUpdated |-> None] :
        st \in {"missing", "corrupt"}}
    \cup {[status |-> "ok", shortFormVideos |-> c, lastUpdated |-> None] :
            c \in SubLists(EntryList, MaxEntries)}

\* the answer of the API: a list of streams, or a failure
FeedSources ==
    {[ok |-> FALSE, streams |-> <<>>]}
    \cup {[ok |-> TRUE, streams |-> f] : f \in SubLists(StreamList, MaxFeed)}

\* lines 333-347
fetch_iptv_org_streams(source) == IF source.ok THEN source.streams ELSE <<>>

ProbeIdle ==
    /\ p_pc = "idle"
    /\ p_url = ""
    /\ p_resp = TimeoutResponse
    /\ p_requests = 0
    /\ p_test_url = ""
    /\ p_result = FALSE

FnIdle ==
    /\ f_pc = "idle"
    /\ f_args = <<>>
    /\ f_result = <<>>

\* the memory of a run that has not started
FreshRun ==
    /\ feed_data = [shortFormVideos |-> <<>>, lastUpdated |-> None]
    /\ iptv_streams = <<>>
    /\ idx = 0
    /\ candidates = <<>>
    /\ ci = 0
    /\ new_url = None
    /\ updated_count = 0
    /\ checked_count = 0
    /\ failed_count = 0
    /\ upgraded_count = 0
    /\ loaded = <<>>
    /\ last_probe = [url |-> None, live |-> FALSE]
    /\ probe_log = <<>>
    /\ outcome = <<>>
    /\ wrote = FALSE

Init ==
    /\ pc = "start"
    /\ run = "first"
    /\ file \in Files
    /\ feed_source \in FeedSources
    /\ net_seen = {}
    /\ FreshRun
    /\ ProbeIdle
    /\ FnIdle

\* the URL of the first video object of an entry (lines 641-642)
CurrentUrl(video) == video.videos[1]

\* line 668 and line 683: video_obj['url'] = url, for the entry at position i
SetUrl(data, i, url) == [data EXCEPT !.shortFormVideos[i].videos[1] = url]

\* one call of check_m3u8_link, recorded
Probed(url, live) ==
    /\ last_probe' = [url |-> url, live |-> live]
    /\ net_seen' = net_seen \cup {<<url, live>>}

\* an exception that leaves check_m3u8_link ends the run
Crash ==
    /\ pc' = "crashed"
    /\ UNCHANGED << run, file, feed_source, feed_data, iptv_streams, idx, candidates, ci,
                    new_url, updated_count, checked_count, failed_count, upgraded_count,
                    loaded, last_probe, probe_log, outcome, wrote, net_seen >>

\* lines 602-621: load the catalog, fetch the feed, reset the counters
Start ==
    /\ pc = "start"
    /\ IF file.status # "ok"
       THEN /\ pc' = "aborted"
            /\ UNCHANGED << feed_data, iptv_streams, idx, loaded >>
       ELSE /\ feed_data' = [shortFormVideos |-> file.shortFormVideos,
                             lastUpdated |-> file.lastUpdated]
            /\ loaded' = file.shortFormVideos
            /\ iptv_streams' = fetch_iptv_org_streams(feed_source)
            /\ IF fetch_iptv_org_streams(feed_source) = <<>>
               THEN pc' = "aborted" /\ UNCHANGED idx
               ELSE pc' = "entry" /\ idx' = 1
    /\ UNCHANGED << run, file, feed_source, candidates, ci, new_url, updated_count,
                    checked_count, failed_count, upgraded_count, last_probe, probe_log,
                    outcome, wrote, net_seen >>

\* lines 624-680: the next entry, up to and including the test of its current
\* URL, the upgrade evaluation of a working link and the ranking of the
\* replacements of a dead one
CheckEntry ==
    /\ pc = "entry"
    /\ idx <= Len(feed_data.shortFormVideos)
    /\ LET video == feed_data.shortFormVideos[idx]
       IN  IF video.videos = <<>> \/ CurrentUrl(video) = ""
           THEN /\ checked_count' = checked_count + 1
                /\ idx' = idx + 1
                /\ outcome' = Append(outcome, "skipped")
                /\ UNCHANGED << pc, iptv_streams, candidates, ci, new_url, failed_count,
                                last_probe, probe_log, net_seen >>
           ELSE \E resp \in PassResponses :
                LET is_working == check_m3u8_link(CurrentUrl(video), resp)
                IN  IF is_working.kind = "raise"
                    THEN /\ pc' = "crashed"
                         /\ UNCHANGED << checked_count, idx, outcome, iptv_streams,
                                         candidates, ci, new_url, failed_count, last_probe,
                                         probe_log, net_seen >>
                    ELSE /\ checked_count' = checked_count + 1
                         /\ Probed(CurrentUrl(video), is_working.value)
                         /\ IF is_working.value
                            THEN /\ iptv_streams' =
                                        StreamsAfterUpgradeCheck(CurrentUrl(video),
                                                                 video.title, iptv_streams)
                                 /\ \E upgrade \in
                                        {should_upgrade_stream(CurrentUrl(video),
                                                               video.country, video.title,
                                                               iptv_streams)} :
                                    IF upgrade.should_upgrade /\ upgrade.new_url # ""
                                    THEN /\ pc' = "upgrade"
                                         /\ new_url' = upgrade.new_url
                                         /\ UNCHANGED << idx, outcome >>
                                    ELSE /\ idx' = idx + 1
                                         /\ outcome' = Append(outcome, "working")
                                         /\ UNCHANGED << pc, new_url >>
                                 /\ UNCHANGED << candidates, ci, failed_count, probe_log >>
                            ELSE /\ failed_count' = failed_count + 1
                                 /\ candidates' = RankedCandidates(video.title, iptv_streams)
                                 /\ iptv_streams' =
                                        StreamsAfterRanking(video.title, iptv_streams)
                                 /\ ci' = 1
                                 /\ probe_log' = <<>>
                                 /\ pc' = "replace"
                                 /\ UNCHANGED << idx, outcome, new_url >>
    /\ UNCHANGED << run, file, feed_source, feed_data, updated_count, upgraded_count,
                    loaded, wrote >>

\* the upgrade applied without counting it as an update
ApplyUpgradeUncounted ==
    /\ feed_data' = SetUrl(feed_data, idx, new_url)
    /\ upgraded_count' = upgraded_count + 1
    /\ outcome' = Append(outcome, "upgraded")
    /\ UNCHANGED updated_count

\* lines 668-671: the upgrade is applied to the entry being processed
ApplyUpgrade ==
    /\ feed_data' = SetUrl(feed_data, idx, new_url)
    /\ upgraded_count' = upgraded_count + 1
    /\ updated_count' = updated_count + 1
    /\ outcome' = Append(outcome, "upgraded")

\* the upgrade applied although the new stream was not found to work
ApplyUpgradeUnconfirmed == ApplyUpgrade

\* lines 672-673: the new stream does not work, the entry keeps its stream
KeepCurrent ==
    /\ outcome' = Append(outcome, "working")
    /\ UNCHANGED << feed_data, upgraded_count, updated_count >>

\* lines 667-675: the proposed upgrade is tested, and applied if it works
TestUpgrade ==
    /\ pc = "upgrade"
    /\ \E resp \in PassResponses :
        LET works == check_m3u8_link(new_url, resp)
        IN  IF works.kind = "raise" THEN Crash
            ELSE /\ Probed(new_url, works.value)
                 /\ IF works.value THEN ApplyUpgrade ELSE KeepCurrent
                 /\ idx' = idx + 1
                 /\ pc' = "entry"
                 /\ UNCHANGED << run, file, feed_source, iptv_streams, candidates, ci,
                                 new_url, checked_count, failed_count, loaded, probe_log,
                                 wrote >>

\* lines 682-685: the replacement found becomes the URL of the entry
ApplyReplacement(url) ==
    /\ feed_data' = SetUrl(feed_data, idx, url)
    /\ updated_count' = updated_count + 1
    /\ outcome' = Append(outcome, "fixed")

\* lines 483-495 and 682-689: the next candidate is tested; the first that works
\* is returned and becomes the entry's URL
TestCandidate ==
    /\ pc = "replace"
    /\ ci <= Len(candidates)
    /\ \E resp \in PassResponses :
        LET works == check_m3u8_link(candidates[ci].url, resp)
        IN  IF works.kind = "raise" THEN Crash
            ELSE /\ Probed(candidates[ci].url, works.value)
                 /\ probe_log' = Append(probe_log,
                                        [url |-> candidates[ci].url, live |-> works.value])
                 /\ IF works.value
                    THEN /\ ApplyReplacement(candidates[ci].url)
                         /\ idx' = idx + 1
                         /\ pc' = "entry"
                         /\ UNCHANGED ci
                    ELSE /\ ci' = ci + 1
                         /\ UNCHANGED << feed_data, updated_count, outcome, idx, pc >>
                 /\ UNCHANGED << run, file, feed_source, iptv_streams, candidates, new_url,
                                 checked_count, failed_count, upgraded_count, loaded, wrote >>

\* the search is given up after the first candidate, whatever is left
NoReplacementAfterFirst ==
    /\ pc = "replace"
    /\ ci > 1
    /\ outcome' = Append(outcome, "broken")
    /\ idx' = idx + 1
    /\ pc' = "entry"
    /\ UNCHANGED << run, file, feed_source, feed_data, iptv_streams, candidates, ci, new_url,
                    updated_count, checked_count, failed_count, upgraded_count, loaded,
                    last_probe, probe_log, wrote, net_seen >>

\* no candidate is left, and the run ends there
NoReplacementAborts ==
    /\ pc = "replace"
    /\ ci > Len(candidates)
    /\ pc' = "aborted"
    /\ UNCHANGED << run, file, feed_source, feed_data, iptv_streams, idx, candidates, ci,
                    new_url, updated_count, checked_count, failed_count, upgraded_count,
                    loaded, last_probe, probe_log, outcome, wrote, net_seen >>

\* lines 497 and 686-689: no candidate is left; the entry keeps its URL
NoReplacement ==
    /\ pc = "replace"
    /\ ci > Len(candidates)
    /\ outcome' = Append(outcome, "broken")
    /\ idx' = idx + 1
    /\ pc' = "entry"
    /\ UNCHANGED << run, file, feed_source, feed_data, iptv_streams, candidates, ci, new_url,
                    updated_count, checked_count, failed_count, upgraded_count, loaded,
                    last_probe, probe_log, wrote, net_seen >>

\* datetime.now().isoformat() of line 692: the time of the run
Now == IF run = "first" THEN "time of the first run" ELSE "time of the second run"

\* lines 691-715: after the last entry, the catalog is written if a URL was set
Finish ==
    /\ pc = "entry"
    /\ idx > Len(feed_data.shortFormVideos)
    /\ IF updated_count > 0
       THEN /\ feed_data' = [feed_data EXCEPT !.lastUpdated = Now]
            /\ file' = [status |-> "ok",
                        shortFormVideos |-> feed_data.shortFormVideos,
                        lastUpdated |-> Now]
            /\ wrote' = TRUE
       ELSE UNCHANGED << feed_data, file, wrote >>
    /\ pc' = "done"
    /\ UNCHANGED << run, feed_source, iptv_streams, idx, candidates, ci, new_url,
                    updated_count, checked_count, failed_count, upgraded_count, loaded,
                    last_probe, probe_log, outcome, net_seen >>

\* the script is run a second time: a new process, the same advancefeed.json as
\* the first run left it, the same answer of the API
Rerun ==
    /\ pc \in {"done", "aborted"}
    /\ run = "first"
    /\ run' = "second"
    /\ pc' = "start"
    /\ feed_data' = [shortFormVideos |-> <<>>, lastUpdated |-> None]
    /\ iptv_streams' = <<>>
    /\ idx' = 0
    /\ candidates' = <<>>
    /\ ci' = 0
    /\ new_url' = None
    /\ updated_count' = 0
    /\ checked_count' = 0
    /\ failed_count' = 0
    /\ upgraded_count' = 0
    /\ loaded' = <<>>
    /\ last_probe' = [url |-> None, live |-> FALSE]
    /\ probe_log' = <<>>
    /\ outcome' = <<>>
    /\ wrote' = FALSE
    /\ UNCHANGED << file, feed_source, net_seen >>

Next ==
    \/ (Start /\ UNCHANGED << probe_vars, fn_vars >>)
    \/ (CheckEntry /\ UNCHANGED << probe_vars, fn_vars >>)
    \/ (TestUpgrade /\ UNCHANGED << probe_vars, fn_vars >>)
    \/ (TestCandidate /\ UNCHANGED << probe_vars, fn_vars >>)
    \/ (NoReplacement /\ UNCHANGED << probe_vars, fn_vars >>)
    \/ (Finish /\ UNCHANGED << probe_vars, fn_vars >>)
    \/ (Rerun /\ UNCHANGED << probe_vars, fn_vars >>)

Spec == Init /\ [][Next]_vars

(***************************************************************************)
(* One call of check_m3u8_link, request by request                         *)
(***************************************************************************)
\* the URLs probed: with a scheme, without one, empty
ProbeUrls ==
    {"http://good.example/cnn.m3u8", "HTTPS://h.example/live/index.m3u8",
     "good.example/cnn.m3u8", "ftp://f.example/cnn.m3u8", ""}

\* the bodies of the playlist response, as the lines content.split('\n') gives
ProbeBodies ==
    { <<"#EXTM3U", "#EXTINF:10,", "seg1.ts">>,
      <<"seg0.ts", "#EXTM3U">>,
      <<"#EXTM3U", "", "  http://cdn.example/a.ts\r">>,
      <<"#EXTM3U", "#EXT-X-ENDLIST", "   ">>,
      <<"<html>", "seg1.ts">>,
      <<"">> }

\* what requests.get may do: answer, or raise
GetOutcomes == {"ok", "Timeout", "ConnectionError", "ChunkedEncodingError"}

ProbeResponses ==
    {Response(g1, s1, b, g2, s2, c) :
        g1 \in GetOutcomes, s1 \in {200, 204, 404}, b \in ProbeBodies,
        g2 \in GetOutcomes, s2 \in {200, 206, 503}, c \in {None, "", "data"}}

ProbeInit ==
    /\ pc = "idle"
    /\ run = "first"
    /\ file = [status |-> "missing", shortFormVideos |-> <<>>, lastUpdated |-> None]
    /\ feed_source = [ok |-> FALSE, streams |-> <<>>]
    /\ net_seen = {}
    /\ FreshRun
    /\ p_pc = "call"
    /\ p_url \in ProbeUrls
    /\ p_resp \in ProbeResponses
    /\ p_requests = 0
    /\ p_test_url = ""
    /\ p_result = FALSE
    /\ FnIdle

\* where the call is after a step that ended as the outcome o
AfterStep(o) ==
    IF o.kind = "return" THEN "returned" ELSE IF o.kind = "raise" THEN "raised" ELSE "stream"

\* lines 11-43: requests.get(url) and the parse of the playlist
GetPlaylist ==
    /\ p_pc = "call"
    /\ p_requests' = p_requests + 1
    /\ p_pc' = AfterStep(PlaylistStep(p_url, p_resp))
    /\ p_result' = PlaylistStep(p_url, p_resp).value
    /\ p_test_url' = PlaylistStep(p_url, p_resp).test_url
    /\ UNCHANGED << p_url, p_resp >>

\* lines 46-61: requests.get(test_url, stream=True) and the first chunk
GetStream ==
    /\ p_pc = "stream"
    /\ p_requests' = p_requests + 1
    /\ p_pc' = AfterStep(StreamStep(p_resp))
    /\ p_result' = StreamStep(p_resp).value
    /\ UNCHANGED << p_url, p_resp, p_test_url >>

ProbeNext ==
    \/ (GetPlaylist /\ UNCHANGED << pass_vars, fn_vars >>)
    \/ (GetStream /\ UNCHANGED << pass_vars, fn_vars >>)

SpecProbe == ProbeInit /\ [][ProbeNext]_vars

(***************************************************************************)
(* Claims about check_m3u8_link, checked under SpecProbe                   *)
(***************************************************************************)
\* a request that was answered with a success status
Succeeded(get, status) == get = "ok" /\ status \in 200..299

\* the conditions C9 lists for Live, on the call in progress
C9_LiveConditions ==
    /\ p_url # "" /\ SchemeOK(p_url)
    /\ Succeeded(p_resp.get1, p_resp.status1)
    /\ \E k \in 1..Len(p_resp.body) : Contains(p_resp.body[k], "#EXTM3U")
    /\ \E k \in 1..Len(p_resp.body) :
            Strip(p_resp.body[k]) # "" /\ ~StartsWith(Strip(p_resp.body[k]), "#")
    /\ Succeeded(p_resp.get2, p_resp.status2)
    /\ p_resp.chunk # None /\ Len(p_resp.chunk) > 0

\* C9: check_m3u8_link is total and fails closed.  No exception leaves the call,
\* it makes at most two requests, and it returns True (Live) only if the playlist
\* fetch succeeded, the body has '#EXTM3U' and a reference line, and the fetch of
\* the first reference succeeded with a first chunk of non-zero length; in every
\* other case it returns False (Dead).
C9_ProbeFailsClosed ==
    /\ p_pc \in {"call", "stream", "returned"}
    /\ p_requests <= 2
    /\ (p_pc = "stream" => p_requests = 1)
    /\ (p_pc = "returned" /\ p_result => C9_LiveConditions /\ p_requests = 2)
    /\ (p_pc = "returned" /\ ~C9_LiveConditions => ~p_result)

\* a call whose second request raised an exception other than the two named ones
\* has returned False
C9_Witness ==
    /\ p_pc = "returned"
    /\ p_requests = 2
    /\ p_resp.get2 = "ChunkedEncodingError"
    /\ ~p_result

(***************************************************************************)
(* Claims about the reconcile pass, checked under Spec                     *)
(***************************************************************************)
\* the URL of the entry at position i of a list of entries, "" if it has none
UrlOf(entries, i) == IF entries[i].videos = <<>> THEN "" ELSE entries[i].videos[1]

\* the positions of the entries whose URL is not the one they were loaded with
Changed == {i \in DOMAIN loaded : UrlOf(feed_data.shortFormVideos, i) # UrlOf(loaded, i)}

\* C1: in a reconcile pass an entry's URL differs from the one it was loaded with
\* only if check_m3u8_link returned True for the new URL immediately before the
\* assignment, on the replacement path and on the upgrade path; an upgrade whose
\* probe is Dead leaves the URL of the entry unchanged.
C1_UrlSetOnlyAfterLiveProbe ==
    /\ [](pc # "start" =>
            \A i \in Changed :
                <<UrlOf(feed_data.shortFormVideos, i), TRUE>> \in net_seen)
    /\ [][/\ \A i \in DOMAIN feed_data.shortFormVideos
                        \cap DOMAIN feed_data'.shortFormVideos :
                UrlOf(feed_data'.shortFormVideos, i) # UrlOf(feed_data.shortFormVideos, i)
                => /\ pc \in {"replace", "upgrade"}
                   /\ i = idx
                   /\ last_probe' = [url |-> UrlOf(feed_data'.shortFormVideos, i),
                                     live |-> TRUE]
          /\ (pc = "upgrade" /\ pc' = "entry" /\ ~last_probe'.live
                => feed_data' = feed_data)]_vars

\* a live entry has just been upgraded: its URL is no longer the loaded one, and
\* the last probe was that of the new URL and returned True
C1_Witness ==
    /\ pc = "entry"
    /\ idx > 1
    /\ outcome[idx - 1] = "upgraded"
    /\ idx - 1 \in Changed
    /\ last_probe = [url |-> UrlOf(feed_data.shortFormVideos, idx - 1), live |-> TRUE]

\* the entry processed last, once the pass is back at the head of the loop
LastDone == idx - 1

\* find_replacement_stream has returned for the entry processed last
Returned(result) == pc = "entry" /\ idx > 1 /\ outcome[LastDone] = result

\* the first n candidates were probed, in rank order
ProbedInOrder(n) ==
    /\ Len(probe_log) = n
    /\ n <= Len(candidates)
    /\ \A k \in 1..n : probe_log[k].url = candidates[k].url

\* C2: the probe loop of find_replacement_stream probes the ranked candidates one
\* at a time in rank order, returns the URL of the first candidate whose probe is
\* Live, probes no candidate ranked after it, and returns None exactly when every
\* ranked candidate probed Dead or the list is empty.
C2_FirstLiveInRankOrder ==
    /\ (pc = "replace" =>
            /\ ProbedInOrder(ci - 1)
            /\ \A k \in 1..Len(probe_log) : ~probe_log[k].live)
    /\ (Returned("fixed") =>
            /\ Len(probe_log) >= 1
            /\ ProbedInOrder(Len(probe_log))
            /\ \A k \in 1..Len(probe_log) : probe_log[k].live <=> k = Len(probe_log)
            /\ UrlOf(feed_data.shortFormVideos, LastDone) = candidates[Len(probe_log)].url)
    /\ (Returned("broken") =>
            /\ ProbedInOrder(Len(candidates))
            /\ \A k \in 1..Len(probe_log) : ~probe_log[k].live)

\* the first candidate probed Dead, the second Live and was returned, and a third
\* candidate was left unprobed
C2_Witness ==
    /\ Returned("fixed")
    /\ Len(candidates) = 3
    /\ Len(probe_log) = 2
    /\ ~probe_log[1].live
    /\ probe_log[2].live

\* the tier of the candidate at position k of the list candidates
Tier(k) ==
    IF candidates[k].match_type = "EXACT_NAME" THEN 1
    ELSE IF candidates[k].match_type = "EXACT_TITLE" THEN 2
    ELSE 3

\* the stream at position i of the feed is named by a search term of the entry
\* being processed
NamedByTerm(i) ==
    \E t \in 1..Len(SearchTerms(feed_data.shortFormVideos[idx].title)) :
        LET term == SearchTerms(feed_data.shortFormVideos[idx].title)[t]
        IN  \/ iptv_streams[i].name # "" /\ Contains(Upper(iptv_streams[i].name), term)
            \/ iptv_streams[i].title # "" /\ Contains(Upper(iptv_streams[i].title), term)

\* a search term of the entry being processed equals the field, letter case aside
TermEquals(field) ==
    \E t \in 1..Len(SearchTerms(feed_data.shortFormVideos[idx].title)) :
        SearchTerms(feed_data.shortFormVideos[idx].title)[t] = Upper(field)

\* C5: find_replacement_stream orders the candidates as all ExactName matches by
\* score descending, then all ExactTitle matches by score descending, then all
\* PartialName and PartialTitle matches together by score descending; every
\* stream of the feed appears at most once in the list, and a stream with no URL
\* or whose URL does not contain '.m3u8' appears in no tier.
C5_TieredScoreOrder ==
    pc = "replace" =>
        /\ \A a, b \in 1..Len(candidates) :
                a < b =>
                    /\ Tier(a) <= Tier(b)
                    /\ Tier(a) = Tier(b) =>
                            candidates[a].quality_score >= candidates[b].quality_score
                    /\ candidates[a].index # candidates[b].index
        /\ \A a \in 1..Len(candidates) :
                /\ candidates[a].index \in 1..Len(iptv_streams)
                /\ candidates[a].url = iptv_streams[candidates[a].index].url
                /\ candidates[a].match_type \in
                        {"EXACT_NAME", "EXACT_TITLE", "PARTIAL_NAME", "PARTIAL_TITLE"}
                /\ Tier(a) = 1 => TermEquals(iptv_streams[candidates[a].index].name)
                /\ Tier(a) = 2 => TermEquals(iptv_streams[candidates[a].index].title)
        /\ \A i \in 1..Len(iptv_streams) :
                (\E a \in 1..Len(candidates) : candidates[a].index = i)
                <=> /\ iptv_streams[i].url # ""
                    /\ Contains(Lower(iptv_streams[i].url), ".m3u8")
                    /\ NamedByTerm(i)

\* an ExactName candidate comes before two partial matches of higher score, and
\* the two partial matches are not in the order of the feed
C5_Witness ==
    /\ pc = "replace"
    /\ Len(candidates) = 3
    /\ Tier(1) = 1 /\ Tier(2) = 3 /\ Tier(3) = 3
    /\ candidates[1].quality_score < candidates[3].quality_score
    /\ candidates[2].quality_score > candidates[3].quality_score
    /\ candidates[2].index > candidates[3].index

\* the streams of the feed that are eligible as an upgrade of the entry e: a
\* search term of e in name + ' ' + title, a '.m3u8' URL, not the URL of e
EligibleFor(e) ==
    {i \in 1..Len(iptv_streams) :
        /\ \E t \in 1..Len(SearchTerms(e.title)) :
                Contains(Upper(iptv_streams[i].name) \o " " \o Upper(iptv_streams[i].title),
                         SearchTerms(e.title)[t])
        /\ iptv_streams[i].url # ""
        /\ Contains(Lower(iptv_streams[i].url), ".m3u8")
        /\ iptv_streams[i].url # e.videos[1]}

\* the score of the stream at position i of the feed, for the entry e
ScoreFor(i, e) == get_stream_quality_score(iptv_streams[i].url, iptv_streams[i], e.title)

\* the score of the current stream of the entry e
CurrentScoreOf(e) == CurrentScore(e.videos[1], e.country, e.title)

\* how many of the entries processed so far ended as result
Count(result) == Cardinality({k \in 1..Len(outcome) : outcome[k] = result})

\* the entry processed last was found working and no upgrade was proposed for it
NoProposal ==
    /\ Returned("working")
    /\ last_probe = [url |-> UrlOf(loaded, LastDone), live |-> TRUE]

C6_BrokenEntryIsAbsorbed ==
    /\ [](pc \notin {"crashed"})
    /\ [](Returned("broken") =>
            /\ LastDone \notin Changed
            /\ failed_count = Count("fixed") + Count("broken")
            /\ updated_count - upgraded_count = Count("fixed")
            /\ failed_count - (updated_count - upgraded_count) = Count("broken"))
    /\ [][pc = "replace" /\ ci > Len(candidates) =>
            /\ pc' = "entry"
            /\ idx' = idx + 1
            /\ outcome' = Append(outcome, "broken")
            /\ UNCHANGED << feed_data, failed_count, updated_count, upgraded_count >>]_vars

\* the first entry was left broken after a candidate probed Dead, and the second
\* entry was then checked and found working
C6_Witness ==
    /\ pc = "entry"
    /\ outcome = <<"broken", "working">>
    /\ Len(probe_log) >= 1
    /\ failed_count = 1
    /\ checked_count = 2

\* C7: at the end of a reconcile pass, fixed is the number of entries whose URL was
\* dead and was replaced by a live candidate, upgraded the number of live entries
\* whose URL was switched, fixed + stillBroken = dead and dead + upgraded <=
\* checked; a catalog with one dead entry titled CNN and a feed with one live
\* candidate named CNN ends with the URL of that candidate and fixed = 1.
C7_RunSummary ==
    pc = "done" =>
        LET fixed == updated_count - upgraded_count
            stillBroken == failed_count - fixed
        IN  /\ fixed = Count("fixed")
            /\ upgraded_count = Count("upgraded")
            /\ stillBroken = Count("broken")
            /\ fixed + stillBroken = failed_count
            /\ failed_count + upgraded_count <= checked_count
            /\ checked_count = Len(loaded)
            /\ \A i \in 1..Len(outcome) :
                    /\ outcome[i] = "fixed" =>
                            /\ <<UrlOf(loaded, i), FALSE>> \in net_seen
                            /\ <<UrlOf(feed_data.shortFormVideos, i), TRUE>> \in net_seen
                    /\ outcome[i] = "upgraded" => i \in Changed
                    /\ i \in Changed => outcome[i] \in {"fixed", "upgraded"}
            /\ (/\ loaded = <<Entry("cnn", "CNN", "", <<"http://dead.example/cnn.m3u8">>)>>
                 /\ Len(iptv_streams) = 1
                 /\ iptv_streams[1].name = "CNN"
                 /\ iptv_streams[1].url = "http://good.example/cnn.m3u8"
                 /\ failed_count = 1
                 /\ last_probe = [url |-> "http://good.example/cnn.m3u8", live |-> TRUE]
                 => /\ UrlOf(feed_data.shortFormVideos, 1) = "http://good.example/cnn.m3u8"
                    /\ fixed = 1)

\* the pass over the catalog of one dead CNN entry, with the feed of one live CNN
\* candidate, has ended
C7_Witness ==
    /\ pc = "done"
    /\ loaded = <<Entry("cnn", "CNN", "", <<"http://dead.example/cnn.m3u8">>)>>
    /\ Len(iptv_streams) = 1
    /\ iptv_streams[1].url = "http://good.example/cnn.m3u8"
    /\ failed_count = 1
    /\ last_probe = [url |-> "http://good.example/cnn.m3u8", live |-> TRUE]
    /\ updated_count - upgraded_count = 1

\* every URL probed more than once, in either run, gave the same result each time
SameProbeResults == \A p, q \in net_seen : p[1] = q[1] => p[2] = q[2]

\* C3: idempotence of reconcile.  When a first pass is followed by a second pass
\* with the same feed and the same probe results, and every current URL probes
\* Live in the second pass, the second pass changes no URL (nothing fixed,
\* nothing upgraded), also for the entries the first pass replaced or upgraded.
C3_SecondPassChangesNothing ==
    (run = "second" /\ pc = "done" /\ failed_count = 0 /\ SameProbeResults)
    => /\ updated_count = 0
       /\ upgraded_count = 0
       /\ Changed = {}

\* C8: advancefeed.json is written in a run if and only if the URL of at least one
\* entry was changed in that run, and what is written is the whole catalog with a
\* lastUpdated field; a run that aborts because the feed is empty or failed, or
\* because the catalog is missing or corrupt, changes no entry and writes nothing.
C8_WrittenIffUrlChanged ==
    /\ (pc = "done" => (wrote <=> Changed # {}))
    /\ (wrote =>
            /\ file.status = "ok"
            /\ file.lastUpdated # None
            /\ file.shortFormVideos = feed_data.shortFormVideos
            /\ Len(file.shortFormVideos) = Len(loaded))
    /\ (pc = "aborted" => ~wrote /\ Changed = {} /\ updated_count = 0)

\* C10: the records of the feed are immutable for the duration of a run: scoring,
\* matching and upgrade evaluation leave every field of every record unchanged,
\* so the records seen when a later entry is processed are the records as fetched.
C10_FeedRecordsUnchanged ==
    pc \in {"entry", "replace", "upgrade", "done"}
    => iptv_streams = fetch_iptv_org_streams(feed_source)


(***************************************************************************)
(* get_stream_quality_score on its own: two candidates that differ only by *)
(* the resolution token of their URLs are scored one after the other, as   *)
(* the loop of lines 411-427 scores the streams of the feed.               *)
(***************************************************************************)

\* what precedes the token in the URL
ScorePrefixes ==
    { "http://x.example/", "http://x.example/4k/", "http://x.example/hd/",
      "http://x.example/720x1", "http://x.example/4k/720x1",
      "http://x.example/100x0", "http://x.example/hd/100x0",
      "http://x.example/640x", "http://x.example/backup/85",
      "http://i.mjh.nz/FHD_", "http://x.example/cnn_1280x720/",
      "http://x.example/sd-" }

\* what follows it
ScoreSuffixes == { ".m3u8", "/index.m3u8", "_1280x720.m3u8", "/alt/320.m3u8" }

ScoreCountries == { "", "US" }

ScoreResolutions == { <<>>, <<1920, 1080>> }

\* the candidate's name and the channel title it is scored for
ScoreNames == { "CNN", "CNN International" }

ScoreTitles == { "", "CNN" }

ScoreArgs ==
    [ prefix : ScorePrefixes, suffix : ScoreSuffixes, name : ScoreNames,
      country : ScoreCountries, resolution : ScoreResolutions,
      channel_title : ScoreTitles ]

ScoreInit ==
    /\ pc = "idle"
    /\ run = "first"
    /\ file = [status |-> "missing", shortFormVideos |-> <<>>, lastUpdated |-> None]
    /\ feed_source = [ok |-> FALSE, streams |-> <<>>]
    /\ net_seen = {}
    /\ FreshRun
    /\ ProbeIdle
    /\ f_pc = "call"
    /\ f_args \in ScoreArgs
    /\ f_result = <<>>

\* the URL of the candidate whose resolution token is token
UrlWith(token) == f_args.prefix \o token \o f_args.suffix

\* line 424: the score of the candidate with that token
ScoreOf(token) ==
    get_stream_quality_score(
        UrlWith(token),
        Stream(f_args.name, "", UrlWith(token), f_args.country, f_args.resolution),
        f_args.channel_title)

ScoreLow ==
    /\ f_pc = "call"
    /\ f_pc' = "second"
    /\ f_result' = [low |-> ScoreOf("480p")]
    /\ UNCHANGED f_args

ScoreHigh ==
    /\ f_pc = "second"
    /\ f_pc' = "returned"
    /\ f_result' = [low |-> f_result.low, high |-> ScoreOf("1080p")]
    /\ UNCHANGED f_args

ScoreNext ==
    \/ (ScoreLow /\ UNCHANGED << pass_vars, probe_vars >>)
    \/ (ScoreHigh /\ UNCHANGED << pass_vars, probe_vars >>)

SpecScore == ScoreInit /\ [][ScoreNext]_vars

(***************************************************************************)
(* C11                                                                     *)
(***************************************************************************)

\* the keywords of the ladder of lines 248-253, the rungs above that of "1080"
RungsAbove1080 == {"2160", "4k", "uhd", "1440", "2k"}

\* the keywords of the rungs of lines 248-255, those above the rung of "480"
RungsAbove480 == RungsAbove1080 \cup {"1080", "fhd", "1920", "900", "720", "hd", "1280"}

\* the rest of the URL, what precedes and what follows the token, holds none of
\* the keywords
RestWithout(keywords) ==
    /\ ~ContainsAny(Lower(f_args.prefix), keywords)
    /\ ~ContainsAny(Lower(f_args.suffix), keywords)

\* C11 as stated: of two candidates with the same metadata and channel title
\* whose URLs differ only by "480p" against "1080p", the 1080p one scores strictly
\* higher, whatever the rest of the URL contains.
C11_HigherWhateverTheRest ==
    f_pc = "returned" => f_result.high > f_result.low

\* C11 as the code has it: the 1080p candidate scores strictly higher when the
\* rest of the URL holds no keyword of a rung of the ladder above that of "480"
\* (2160, 4k, uhd, 1440, 2k, 1080, fhd, 1920, 900, 720, hd, 1280); the WIDTHxHEIGHT
\* bonus of lines 262-287 may then be lower for the 1080p URL, by 10 at most.
C11_HigherWithoutHigherKeyword ==
    (f_pc = "returned" /\ RestWithout(RungsAbove480))
    => f_result.high > f_result.low

\* the two candidates are scored, the rest of the URL holds no higher keyword, and
\* the WIDTHxHEIGHT bonus of the 480p URL is the greater one
C11_Witness ==
    /\ f_pc = "returned"
    /\ RestWithout(RungsAbove480)
    /\ PatternBonus(Lower(UrlWith("480p"))) > PatternBonus(Lower(UrlWith("1080p")))
    /\ f_result.high > f_result.low


(***************************************************************************)
(* C12                                                                     *)
(***************************************************************************)

\* the score the candidate with that token has when the WIDTHxHEIGHT bonus is
\* added only if no rung of the keyword ladder matched
ScoreWithoutStacking(token) ==
    LET url_lower == Lower(UrlWith(token))
        m == is_channel_mismatch(f_args.channel_title, f_args.name, "", UrlWith(token))
    IN  BaseScore
        + (IF m.is_mismatch THEN m.penalty ELSE 0)
        + CountryBonus(Upper(f_args.country))
        + (IF KeywordBonus(url_lower) # 0 THEN KeywordBonus(url_lower)
           ELSE PatternBonus(url_lower))
        + MetadataBonus(f_args.resolution)
        + DomainBonus(url_lower) + LowQualityPenalty(url_lower)

\* C12: the WIDTHxHEIGHT bonus is applied only when the keyword ladder produced no
\* match, so the score of no URL holds both URL-derived resolution bonuses.
C12_PatternBonusOnlyWithoutKeyword ==
    f_pc = "returned"
    => /\ f_result.low = ScoreWithoutStacking("480p")
       /\ f_result.high = ScoreWithoutStacking("1080p")


(***************************************************************************)
(* is_channel_mismatch on its own: one call for a channel title and the    *)
(* name, title and URL of a candidate.                                     *)
(***************************************************************************)

\* the keys of mismatch_rules and of channel_mappings
BrandKeys ==
    {mismatch_rules[k].key : k \in 1..Len(mismatch_rules)}
    \cup {channel_mappings[k].key : k \in 1..Len(channel_mappings)}

\* the channel titles of the calls: the keys of the two tables and two titles as
\* advancefeed.json writes them
DetectTitles == BrandKeys \cup {"AMC (Temporary)", "Fox News"}

\* the candidate's name: that of the channel itself, or one of these
DetectNames == {"AMC+", "Espn Deportes"}

DetectStreamTitles == {"", "AMC Plus"}

DetectUrls ==
    { "http://x.example/live/stream.m3u8", "http://x.example/AMC+/stream.m3u8",
      "http://x.example/espn2/stream.m3u8" }

DetectInit ==
    /\ pc = "idle"
    /\ run = "first"
    /\ file = [status |-> "missing", shortFormVideos |-> <<>>, lastUpdated |-> None]
    /\ feed_source = [ok |-> FALSE, streams |-> <<>>]
    /\ net_seen = {}
    /\ FreshRun
    /\ ProbeIdle
    /\ f_pc = "call"
    /\ \E channel_title \in DetectTitles :
       \E stream_name \in DetectNames \cup {CleanTitle(Upper(channel_title))} :
            f_args \in [ channel_title : {channel_title}, stream_name : {stream_name},
                         stream_title : DetectStreamTitles, url : DetectUrls ]
    /\ f_result = <<>>

\* lines 226-228: the call
Detect ==
    /\ f_pc = "call"
    /\ f_pc' = "returned"
    /\ f_result' = is_channel_mismatch(f_args.channel_title, f_args.stream_name,
                                       f_args.stream_title, f_args.url)
    /\ UNCHANGED f_args

DetectNext == Detect /\ UNCHANGED << pass_vars, probe_vars >>

SpecMismatch == DetectInit /\ [][DetectNext]_vars

(***************************************************************************)
(* C13                                                                     *)
(***************************************************************************)

\* the avoid term occurs in the candidate's name, in its title or in its URL,
\* whatever the case of the letters
Occurs(avoid_term) ==
    \/ Contains(Upper(f_args.stream_name), avoid_term)
    \/ Contains(Upper(f_args.stream_title), avoid_term)
    \/ Contains(Upper(f_args.url), avoid_term)

\* the rules whose key the cleaned channel title contains and of which an avoid
\* term occurs in the candidate
BrandsAvoided ==
    {k \in 1..Len(mismatch_rules) :
        /\ Contains(CleanTitle(Upper(f_args.channel_title)), mismatch_rules[k].key)
        /\ \E a \in 1..Len(mismatch_rules[k].avoid) : Occurs(mismatch_rules[k].avoid[a])}

\* the local-affiliate layer of lines 97-107 returned
LocalLayerFired ==
    FoxNewsGuard(CleanTitle(Upper(f_args.channel_title)), Upper(f_args.stream_name),
                 Upper(f_args.stream_title), Lower(f_args.url)).is_mismatch

\* C13: when the cleaned channel title contains a brand key, the local-affiliate
\* layer did not fire and an avoid term of the brand occurs in the candidate's
\* name, title or URL, the candidate is reported as a mismatch with that brand's
\* reason and penalty.
C13_AvoidTermInNameTitleOrUrl ==
    (f_pc = "returned" /\ ~LocalLayerFired /\ BrandsAvoided # {})
    => /\ f_result.is_mismatch
       /\ \E k \in BrandsAvoided :
            /\ f_result.reason = mismatch_rules[k].reason
            /\ f_result.penalty = mismatch_rules[k].penalty_score


(***************************************************************************)
(* C16                                                                     *)
(***************************************************************************)

\* the candidate of the same brand: the channel title is a key of one of the two
\* tables, the candidate's name is the cleaned channel title, its title is empty
\* and no avoid term of any rule occurs in its URL
SameBrandCandidate ==
    /\ f_args.channel_title \in BrandKeys
    /\ f_args.stream_name = CleanTitle(Upper(f_args.channel_title))
    /\ f_args.stream_title = ""
    /\ \A k \in 1..Len(mismatch_rules) : \A a \in 1..Len(mismatch_rules[k].avoid) :
            ~Contains(Upper(f_args.url), mismatch_rules[k].avoid[a])

\* C16: for every key of the avoid table and of the alias table, the candidate
\* whose name is exactly the cleaned channel title, with an empty title and a URL
\* without avoid terms, is not reported as a mismatch and receives penalty 0.
C16_SameBrandIsNoMismatch ==
    (f_pc = "returned" /\ SameBrandCandidate)
    => (~f_result.is_mismatch /\ f_result.penalty = 0)


(***************************************************************************)
(* The derivation of the search terms on its own (lines 351-400 of         *)
(* find_replacement_stream, the same text as lines 506-551 of              *)
(* should_upgrade_stream): one call for a channel title.                   *)
(***************************************************************************)

\* channel names, before the annotation advancefeed.json may add to them
NormalizeNames ==
    { "Fox News", "Some Obscure Channel", "CNN", "CNN International", "NEWS",
      "News", "ESPN2", "Espn 2", "Fox Sports 1", "BBC America", "Cartoon Network",
      "CN", "HBO", "Nat Geo Wild", "truTV", "Pop", "Popcorn TV", "ABC", "CBS Sports",
      "Charge!", "TCM" }

NormalizeAnnotations == { "", " (Temporary)", " GEO-BLOCKED", " (Latency)" }

NormalizeTitles == {n \o a : n \in NormalizeNames, a \in NormalizeAnnotations}

NormalizeInit ==
    /\ pc = "idle"
    /\ run = "first"
    /\ file = [status |-> "missing", shortFormVideos |-> <<>>, lastUpdated |-> None]
    /\ feed_source = [ok |-> FALSE, streams |-> <<>>]
    /\ net_seen = {}
    /\ FreshRun
    /\ ProbeIdle
    /\ f_pc = "call"
    /\ f_args \in [channel_name : NormalizeTitles]
    /\ f_result = <<>>

\* lines 351-400
Normalize ==
    /\ f_pc = "call"
    /\ f_pc' = "returned"
    /\ f_result' = SearchTerms(f_args.channel_name)
    /\ UNCHANGED f_args

NormalizeNext == Normalize /\ UNCHANGED << pass_vars, probe_vars >>

SpecNormalize == NormalizeInit /\ [][NormalizeNext]_vars

(***************************************************************************)
(* C14                                                                     *)
(***************************************************************************)

\* the title of the call, the annotations stripped, in upper case and trimmed
Cleaned == CleanTitle(Upper(f_args.channel_name))

Aliases(k) == {channel_mappings[k].values[t] : t \in 1..Len(channel_mappings[k].values)}

\* the mappings of which the cleaned title is a substring of an alias
TitleInAlias == {k \in 1..Len(channel_mappings) : \E a \in Aliases(k) : Contains(a, Cleaned)}

\* the mappings of which an alias is a substring of the cleaned title
AliasInTitle == {k \in 1..Len(channel_mappings) : \E a \in Aliases(k) : Contains(Cleaned, a)}

\* the result is the alias list of the first mapping of the set in table order,
\* and the list of the cleaned title alone when the set is empty
FirstOf(qualifying) ==
    /\ qualifying = {} => f_result = <<Cleaned>>
    /\ \A k \in qualifying :
            (\A j \in qualifying : k <= j) => f_result = channel_mappings[k].values

\* what the claim says of its two examples
C14_Examples ==
    /\ f_args.channel_name = "Fox News (Temporary)"
       => \E i \in 1..Len(f_result) : f_result[i] = "FOX NEWS"
    /\ f_args.channel_name = "Some Obscure Channel"
       => f_result = <<"SOME OBSCURE CHANNEL">>

\* C14 as stated: the search terms are the aliases of the first mapping in table
\* order for which the cleaned title is a substring of one of the mapping's
\* aliases, and the cleaned title alone when no alias qualifies.
C14_TitleSubstringOfAlias ==
    f_pc = "returned" => (FirstOf(TitleInAlias) /\ C14_Examples)

\* C14 as the code has it: the search terms are the aliases of the first mapping in
\* table order one of whose aliases is a substring of the cleaned title, and the
\* cleaned title alone when no alias is; "Fox News (Temporary)" yields a list with
\* "FOX NEWS" and "Some Obscure Channel" yields exactly "SOME OBSCURE CHANNEL".
C14_AliasSubstringOfTitle ==
    f_pc = "returned" => (FirstOf(AliasInTitle) /\ C14_Examples)

\* a title that is a substring of no alias and is given the aliases of a mapping
C14_Witness ==
    /\ f_pc = "returned"
    /\ TitleInAlias = {}
    /\ AliasInTitle # {}
    /\ f_result # <<Cleaned>>


(***************************************************************************)
(* C15                                                                     *)
(***************************************************************************)

\* what is_channel_mismatch reports for the title of the entry being processed and
\* the record of the feed at position i: its reason, None when it reports no mismatch
ReasonFor(i) ==
    LET m == is_channel_mismatch(feed_data.shortFormVideos[idx].title,
                                 iptv_streams[i].name, iptv_streams[i].title,
                                 iptv_streams[i].url)
    IN  IF m.is_mismatch THEN m.reason ELSE None

\* C15: every candidate placed in the ranked list of an entry carries the reason
\* is_channel_mismatch returns for that entry's title and that candidate, and none
\* when the detector reports no mismatch, whatever was processed before.
C15_ReasonIsThatOfTheEntry ==
    pc = "replace"
    => \A j \in 1..Len(candidates) :
            candidates[j].mismatch_reason = ReasonFor(candidates[j].index)

=============================================================================
